---- MODULE Spec2Model ----
(***************************************************************************)
(* Layer normalization on a CUDA device: the forward and backward entry    *)
(* points of aten/src/ATen/native/cuda/layer_norm_kernel.cu and the        *)
(* kernels they launch.  Sums are taken in exact (rational) arithmetic;    *)
(* a reciprocal square root is kept as its radicand.                       *)
(***************************************************************************)
EXTENDS Integers, Sequences, FiniteSets, TLC

(***************************************************************************)
(* Bounds of the model.                                                    *)
(***************************************************************************)
MaxM == 2
MaxN == 3
MaxSeed == 2
MaxOutOfOrder == 2
MaxLargeN == 1
MaxStripes == 2
MaxHalfTiles == 2

(***************************************************************************)
(* Program constants.                                                      *)
(***************************************************************************)
kCUDANumThreads == 256
kColwiseReduceTileSize == 32
kColwiseReduceThreshold == 512
C10_WARP_SIZE == 32
kCUDABlockReduceNumThreads == 512

(***************************************************************************)
(* Exact arithmetic: a rational is <<numerator, denominator>> in lowest    *)
(* terms with a positive denominator.                                      *)
(***************************************************************************)
Abs(x) == IF x < 0 THEN -x ELSE x

RECURSIVE GCD(_, _)
GCD(a, b) == IF b = 0 THEN a ELSE GCD(b, a % b)

RNorm(n, d) ==
  LET g == GCD(Abs(n), Abs(d))
      s == IF d < 0 THEN -1 ELSE 1
  IN  <<(s * n) \div g, (s * d) \div g>>

RInt(n) == <<n, 1>>
RZero == <<0, 1>>
RAdd(a, b) == RNorm(a[1] * b[2] + b[1] * a[2], a[2] * b[2])
RNeg(a) == <<-a[1], a[2]>>
RSub(a, b) == RAdd(a, RNeg(b))
RMul(a, b) == RNorm(a[1] * b[1], a[2] * b[2])
RDiv(a, b) == RNorm(a[1] * b[2], a[2] * b[1])
RMax(a, b) == IF a[1] * b[2] >= b[1] * a[2] THEN a ELSE b
RIsZero(a) == a[1] = 0
RIsPos(a) == a[1] > 0

CeilDiv(a, b) == (a + b - 1) \div b

VARIABLES
  call,      \* the arguments of the entry point that was called
  status,    \* "idle", "error" (a TORCH_CHECK threw) or "returned"
  stream,    \* the kernels launched on the CUDA stream, in launch order
  pending,   \* per launched kernel, the blocks that have not run yet
  Y, mean, rstd,           \* forward outputs
  dX, dgamma, dbeta,       \* backward outputs
  ds, db, scale, bias,     \* backward temporaries (at::empty)
  writers,   \* per buffer, the <<index, kernel, block, lane>> of every store
  reads,     \* per kernel, the buffers its blocks have loaded from
  wpc,       \* tiled reducer: per warp, 0 start, 1 at the barrier, 2 after the
             \* first transposed reduction, 3 finished
  g_shared, b_shared,  \* tiled reducer: per block, the scratch tiles
  stores,    \* tiled reducer: per block, the number of stores to each
             \* scratch cell [row][column]
  access     \* tiled reducer: the block of the step taken last, and the
             \* indices of its global loads and stores and of its scratch
             \* stores and loads

vars == <<call, status, stream, pending, Y, mean, rstd, dX, dgamma, dbeta,
          ds, db, scale, bias, writers, reads, wpc, g_shared, b_shared, stores, access>>

Buffers == {"Y", "mean", "rstd", "dX", "dgamma", "dbeta", "ds", "db", "scale",
            "bias"}

Kernels == {"RowwiseMoments", "LayerNormForward", "ComputeInternalGradients",
            "ComputeGradientFusedParams", "LayerNormBackward",
            "GammaBetaBackwardSimple", "GammaBetaBackward"}

(***************************************************************************)
(* The device: kernels of one stream run in launch order; the blocks of    *)
(* the running kernel run in any order, MaxOutOfOrder bounding how many    *)
(* not yet run blocks a block may overtake.                                *)
(***************************************************************************)
Launched(k) == \E p \in DOMAIN stream : stream[p] = k

Position(k) == CHOOSE p \in DOMAIN stream : stream[p] = k

\* A device without stream order: a launched kernel may execute at once.
StreamReadyUnordered(k) == Launched(k)

\* Kernel k may execute: every kernel launched before it has completed.
StreamReady(k) ==
  /\ Launched(k)
  /\ \A p \in DOMAIN stream : p < Position(k) => pending[stream[p]] = {}

\* The numbers of S less than MaxOutOfOrder above its least one.
Frontier(S) ==
  IF S = {} THEN {}
  ELSE LET m == CHOOSE x \in S : \A y \in S : x <= y
       IN  {x \in S : x < m + MaxOutOfOrder}

\* The blocks of kernel k that may run next: a block runs at most
\* MaxOutOfOrder - 1 places ahead of the first block that has not run.
Schedulable(k) ==
  IF StreamReady(k) THEN Frontier(pending[k]) ELSE {}

Grid(n) == 0 .. (n - 1)

(***************************************************************************)
(* Contents of the input buffers, as functions of the call's data seeds.   *)
(* Inputs are const and are never stored to.                               *)
(***************************************************************************)
XAt(i, j) == call.seed + (call.seed % 2) * i * (j + 1)
dYAt(i, j) == ((call.seed + i) % 3) + j - 1
gammaAt(j) == j + 2 - 2 * call.seed
betaAt(j) == 5 - j + call.seed
meanAt(i) == ((3 * call.mseed + i) % 4) - 1
rstdAt(i) == 1 + ((call.mseed + i) % 2)

\* What an output or temporary cell holds before any kernel stores to it.
Junk == <<-99, 1>>

(***************************************************************************)
(* block_reduce.cuh: the reduction primitives.                             *)
(***************************************************************************)
MomentsIdentity == <<0, RZero, RZero>>

\* Merge of two (count, mean, M2) triples.
UpdateMoments(a, b) ==
  LET n == a[1] + b[1]
  IN  IF n = 0 THEN MomentsIdentity
      ELSE LET delta == RSub(b[2], a[2])
               m1 == RDiv(RAdd(RMul(RInt(a[1]), a[2]), RMul(RInt(b[1]), b[2])),
                          RInt(n))
               m2 == RAdd(RAdd(a[3], b[3]),
                          RDiv(RMul(RMul(delta, delta), RInt(a[1] * b[1])),
                               RInt(n)))
           IN  <<n, m1, m2>>

\* Shuffle-down tree over one warp; v is indexed by lane 0 .. C10_WARP_SIZE-1.
\* The value of lane l after the steps with offsets C10_WARP_SIZE/2 .. k.
RECURSIVE WarpMomentsTree(_, _, _)
WarpMomentsTree(v, l, k) ==
  IF k >= C10_WARP_SIZE THEN v[l]
  ELSE UpdateMoments(WarpMomentsTree(v, l, 2 * k),
                     WarpMomentsTree(v, IF l + k < C10_WARP_SIZE THEN l + k ELSE l,
                                     2 * k))

WarpReduceMoments(v) == WarpMomentsTree(v, 0, 1)

RECURSIVE WarpSumTree(_, _, _)
WarpSumTree(v, l, k) ==
  IF k >= C10_WARP_SIZE THEN v[l]
  ELSE WarpSumTree(v, l, 2 * k)
       + WarpSumTree(v, IF l + k < C10_WARP_SIZE THEN l + k ELSE l, 2 * k)

WarpReduceSum(v) == WarpSumTree(v, 0, 1)

Lanes == 0 .. (C10_WARP_SIZE - 1)

\* Block-wide reduction of the per-thread values v (indexed by threadIdx.x in
\* 0 .. nthreads-1): one shuffle tree per warp, lane 0 of each warp stores to
\* shared[warp], and the first warp reduces the shared values.  Lanes without
\* a thread or a warp hold the identity.
BlockReduceMoments(v, nthreads) ==
  LET nwarps == CeilDiv(nthreads, C10_WARP_SIZE)
      shared == [w \in 0 .. (nwarps - 1) |->
                   WarpReduceMoments(
                     [l \in Lanes |->
                        IF w * C10_WARP_SIZE + l < nthreads
                        THEN v[w * C10_WARP_SIZE + l] ELSE MomentsIdentity])]
  IN  WarpReduceMoments([l \in Lanes |->
                           IF l < nwarps THEN shared[l] ELSE MomentsIdentity])

BlockReduceSum(v, nthreads) ==
  LET nwarps == CeilDiv(nthreads, C10_WARP_SIZE)
      shared == [w \in 0 .. (nwarps - 1) |->
                   WarpReduceSum(
                     [l \in Lanes |->
                        IF w * C10_WARP_SIZE + l < nthreads
                        THEN v[w * C10_WARP_SIZE + l] ELSE 0])]
  IN  WarpReduceSum([l \in Lanes |-> IF l < nwarps THEN shared[l] ELSE 0])

(***************************************************************************)
(* RowwiseMomentsCUDAKernel: block i reduces row i.                         *)
(***************************************************************************)
\* The loop of thread tx, from column j on, with the running triple acc.
RECURSIVE RowwiseMomentsLoop(_, _, _, _)
RowwiseMomentsLoop(i, j, blockDim, acc) ==
  IF j >= call.N THEN acc
  ELSE LET x == RInt(XAt(i, j))
           delta == RSub(x, acc[2])
           m0 == acc[1] + 1
           m1 == RAdd(acc[2], RDiv(delta, RInt(m0)))
           m2 == RAdd(acc[3], RMul(delta, RSub(x, m1)))
       IN  RowwiseMomentsLoop(i, j + blockDim, blockDim, <<m0, m1, m2>>)

\* The block with m0 starting at 1 in every thread: a thread without a
\* sample then counts as one sample of value 0.
RowwiseMomentsBlockCountsIdle(i, blockDim) ==
  LET m == BlockReduceMoments(
             [tx \in 0 .. (blockDim - 1) |->
                RowwiseMomentsLoop(i, tx, blockDim, <<1, RZero, RZero>>)],
             blockDim)
      m2 == RMax(RDiv(m[3], RInt(call.N)), RZero)
  IN  <<m[2], RAdd(m2, call.eps)>>

\* What thread 0 of block i stores: <<mean[i], rstd[i]>>.  rstd is kept as the
\* radicand r of rsqrt(r).
RowwiseMomentsBlock(i, blockDim) ==
  LET m == BlockReduceMoments(
             [tx \in 0 .. (blockDim - 1) |->
                RowwiseMomentsLoop(i, tx, blockDim, MomentsIdentity)],
             blockDim)
      m2 == RMax(RDiv(m[3], RInt(call.N)), RZero)
  IN  <<m[2], RAdd(m2, call.eps)>>

(***************************************************************************)
(* Stores of one block: a set of <<index, value, lane>>.  Store(buf, w)    *)
(* is the buffer after them; StoreLog is what they add to the buffer's     *)
(* entry of writers.                                                       *)
(***************************************************************************)
Store(buf, w) ==
  LET stored == {s[1] : s \in w}
  IN  [idx \in DOMAIN buf |->
         IF idx \in stored
         THEN (CHOOSE s \in w : s[1] = idx)[2]
         ELSE buf[idx]]

StoreLog(kernel, block, w) ==
  {<<s[1], kernel, block, s[3]>> : s \in w}

\* The loop with j++ for j += blockDim.x: thread tx visits every column from
\* tx on.
StridedColsUnitStride(tx, blockDim) == {j \in 0 .. (call.N - 1) : j >= tx}

\* The columns thread tx of a block of blockDim threads visits in
\* for (j = threadIdx.x; j < N; j += blockDim.x).
StridedCols(tx, blockDim) ==
  {j \in 0 .. (call.N - 1) : j >= tx /\ (j - tx) % blockDim = 0}

(***************************************************************************)
(* LayerNormForwardCUDAKernel: block i writes row i of Y.  A value of Y is  *)
(* coef / sqrt(rad) + off, or not a finite number.                          *)
(***************************************************************************)
NotFinite == [kind |-> "nan", coef |-> RZero, rad |-> RZero, off |-> RZero]

\* (x - mu) * rsqrt(rad) * g + b
Normalized(x, mu, rad, g, b) ==
  LET coef == RMul(RSub(x, mu), g)
  IN  IF RIsPos(rad)
      THEN [kind |-> "finite", coef |-> coef,
            rad |-> IF RIsZero(coef) THEN RInt(1) ELSE rad, off |-> b]
      ELSE IF RIsZero(rad) /\ ~RIsZero(coef)
      THEN [kind |-> "inf", coef |-> coef, rad |-> RZero, off |-> RZero]
      ELSE NotFinite

LayerNormForwardBlock(i, blockDim) ==
  UNION {
    {<<i * call.N + j,
       Normalized(RInt(XAt(i, j)), mean[i], rstd[i],
                  IF call.gammaDef THEN RInt(gammaAt(j)) ELSE RInt(1),
                  IF call.betaDef THEN RInt(betaAt(j)) ELSE RZero),
       tx>> : j \in StridedCols(tx, blockDim)}
    : tx \in 0 .. (blockDim - 1)}

(***************************************************************************)
(* ComputeInternalGradientsCUDAKernel: block i reduces ds[i] and db[i].    *)
(***************************************************************************)
gamma_v(j) == IF call.gammaDef THEN gammaAt(j) ELSE 1

\* The loop of thread tx from column j on; acc is <<sum1, sum2>>.
RECURSIVE InternalGradientsLoop(_, _, _, _)
InternalGradientsLoop(i, j, blockDim, acc) ==
  IF j >= call.N THEN acc
  ELSE InternalGradientsLoop(i, j + blockDim, blockDim,
         <<acc[1] + dYAt(i, j) * XAt(i, j) * gamma_v(j),
           acc[2] + dYAt(i, j) * gamma_v(j)>>)

\* What thread 0 of block i stores: <<ds[i], db[i]>>.
ComputeInternalGradientsBlock(i, blockDim) ==
  LET t == [tx \in 0 .. (blockDim - 1) |->
              InternalGradientsLoop(i, tx, blockDim, <<0, 0>>)]
  IN  <<RInt(BlockReduceSum([tx \in DOMAIN t |-> t[tx][1]], blockDim)),
        RInt(BlockReduceSum([tx \in DOMAIN t |-> t[tx][2]], blockDim))>>

(***************************************************************************)
(* ComputeGradientFusedParamsCUDAKernel: thread index < M derives c1, c2.  *)
(***************************************************************************)
\* <<c1[index], c2[index]>>
FusedParams(index) ==
  LET s == RDiv(RInt(1), RInt(call.N))
      mu == RInt(meanAt(index))
      rs == RInt(rstdAt(index))
      a == RMul(RMul(RMul(RMul(RSub(RMul(db[index], mu), ds[index]), rs), rs), rs), s)
  IN  <<a, RNeg(RAdd(RMul(a, mu), RMul(RMul(db[index], rs), s)))>>

\* The threads of block b whose index passes the guard index < M.
FusedParamsThreads(b, blockDim) ==
  {tx \in 0 .. (blockDim - 1) : b * blockDim + tx < call.M}

(***************************************************************************)
(* LayerNormBackwardCUDAKenrel: block i writes row i of dX.                *)
(***************************************************************************)
LayerNormBackwardBlock(i, blockDim) ==
  UNION {
    {<<i * call.N + j,
       RAdd(RAdd(RInt(rstdAt(i) * dYAt(i, j) * gamma_v(j)),
                 RMul(scale[i], RInt(XAt(i, j)))),
            bias[i]),
       tx>> : j \in StridedCols(tx, blockDim)}
    : tx \in 0 .. (blockDim - 1)}

(***************************************************************************)
(* GammaBetaBackwardSimpleCUDAKernel: thread j < N sums column j.          *)
(***************************************************************************)
\* One row's term of the dgamma sum and of the dbeta sum; a null output's
\* term is T_ACC(0) and loads nothing.
dgTerm(i, j) == IF call.wantDgamma
                THEN dYAt(i, j) * (XAt(i, j) - meanAt(i)) * rstdAt(i) ELSE 0
\* The dbeta term with the null test on dg for the one on db.
dbTermTestsDg(i, j) == IF call.wantDgamma THEN dYAt(i, j) ELSE 0
dbTerm(i, j) == IF call.wantDbeta THEN dYAt(i, j) ELSE 0

\* The buffers a reducer thread loads from.
ReducerLoads ==
  (IF call.wantDgamma THEN {"dY", "X", "mean", "rstd"} ELSE {})
    \cup (IF call.wantDbeta THEN {"dY"} ELSE {})

\* for (i = 0; i < M; ++i), from row i on; acc is <<sum1, sum2>>.
RECURSIVE SimpleLoop(_, _, _)
SimpleLoop(i, j, acc) ==
  IF i >= call.M THEN acc
  ELSE SimpleLoop(i + 1, j, <<acc[1] + dgTerm(i, j), acc[2] + dbTerm(i, j)>>)

\* The threads of block b that pass the guard j < N.
SimpleThreads(b, blockDim) ==
  {tx \in 0 .. (blockDim - 1) : b * blockDim + tx < call.N}

\* The stores of block b to dg (which = 1) or db (which = 2).
GammaBetaBackwardSimpleBlock(b, blockDim, which) ==
  {<<b * blockDim + tx,
     RInt(SimpleLoop(0, b * blockDim + tx, <<0, 0>>)[which]),
     tx>> : tx \in SimpleThreads(b, blockDim)}

(***************************************************************************)
(* GammaBetaBackwardCUDAKernel: block b reduces the columns of tile b with *)
(* a kColwiseReduceTileSize x kThreadY grid of threads; threadIdx.y is the *)
(* warp.                                                                   *)
(***************************************************************************)
kThreadX == kColwiseReduceTileSize
kThreadY == kColwiseReduceTileSize \div 2

\* The second stripe's guard off by one, and left out.
SecondStripeShort(i2) == i2 + 1 < call.M
SecondStripeUnguarded(i2) == TRUE

\* The guard of the second row stripe.
SecondStripe(i2) == i2 < call.M

\* for (i = threadIdx.y; i < M; i += blockDim.y * 2), from row i on.
RECURSIVE TiledLoop(_, _, _)
TiledLoop(i, j, acc) ==
  IF i >= call.M THEN acc
  ELSE LET i2 == i + kThreadY
           two == SecondStripe(i2)
       IN  TiledLoop(i + kThreadY * 2, j,
             [dg_sum1 |-> acc.dg_sum1 + dgTerm(i, j),
              db_sum1 |-> acc.db_sum1 + dbTerm(i, j),
              dg_sum2 |-> acc.dg_sum2 + (IF two THEN dgTerm(i2, j) ELSE 0),
              db_sum2 |-> acc.db_sum2 + (IF two THEN dbTerm(i2, j) ELSE 0),
              rows |-> acc.rows \cup {i} \cup (IF two THEN {i2} ELSE {})])

TiledZero == [dg_sum1 |-> 0, db_sum1 |-> 0, dg_sum2 |-> 0, db_sum2 |-> 0,
              rows |-> {}]

\* The four partial sums of thread (tx, ty) of block b, and the rows it
\* loaded; a thread whose column is not below N keeps the zeros.
TiledThread(b, tx, ty) ==
  LET j == b * kThreadX + tx
  IN  IF j < call.N THEN TiledLoop(ty, j, TiledZero) ELSE TiledZero

\* The global loads of a reducer thread for row i of column j.
RowLoads(i, j) ==
  (IF call.wantDgamma
   THEN {<<"dY", i * call.N + j>>, <<"X", i * call.N + j>>, <<"mean", i>>,
         <<"rstd", i>>}
   ELSE {})
  \cup (IF call.wantDbeta THEN {<<"dY", i * call.N + j>>} ELSE {})

\* A scratch tile is indexed [row][column]; column kColwiseReduceTileSize
\* is the padding.
ScratchRows == 0 .. (kColwiseReduceTileSize - 1)
ScratchJunk == -99
FreshTile == [r \in ScratchRows |-> [c \in 0 .. (kThreadX - 1) |-> ScratchJunk]]

\* The scratch cells warp ty stores to: [threadIdx.y][threadIdx.x] and
\* [threadIdx.y + blockDim.y][threadIdx.x].
WarpStoreCells(ty) == {ty, ty + kThreadY} \X (0 .. (kThreadX - 1))

\* The kernel without its barrier.
NoSyncThreads(b) == TRUE

\* __syncthreads() of block b: every warp of the block has arrived.
SyncThreads(b) ==
  \A ty \in 0 .. (kThreadY - 1) : wpc[b * kThreadY + ty] >= 1

\* The scratch cells warp ty loads in a transposed reduction of column col
\* of the tile: [threadIdx.x][col].
TransposedCells(col) == {<<tx, col>> : tx \in 0 .. (kThreadX - 1)}

\* The guard of the two write phases.
ColumnInRange(j) == j < call.N

\* The stores of thread 0 of the warp to dg or db at column j.
TiledOutput(wanted, j, sum) ==
  IF ColumnInRange(j) /\ wanted THEN {<<j, RInt(sum), 0>>} ELSE {}

NoAccess == [block |-> 0, loads |-> {}, stores |-> {}, scratchStores |-> {},
             scratchLoads |-> {}]

\* The warps that may step next: the least advanced one, by stage and then
\* by number, and those less than MaxOutOfOrder places after it.
TiledSchedulable ==
  IF StreamReady("GammaBetaBackward")
  THEN LET n == Cardinality(DOMAIN wpc)
       IN  {key % n : key \in Frontier({wpc[u] * n + u :
                                           u \in pending["GammaBetaBackward"]})}
  ELSE {}

(***************************************************************************)
(* The arguments the entry points are called with.  An optional tensor is  *)
(* <<defined, numel - N>>; dx, dy, dm, dr are numel minus the expected     *)
(* count.                                                                  *)
(***************************************************************************)
Optional == {<<FALSE, 0>>, <<TRUE, 0>>, <<TRUE, 1>>}
EpsValues == {RZero, <<1, 100000>>}
Shapes == (0 .. MaxM) \X (1 .. MaxN)
LargeShapes == {kColwiseReduceThreshold} \X (1 .. MaxLargeN)

ForwardCalls ==
  {[fn |-> "forward", M |-> sh[1], N |-> sh[2], Xn |-> sh[1] * sh[2] + dx,
    gammaDef |-> g[1], gamman |-> IF g[1] THEN sh[2] + g[2] ELSE 0,
    betaDef |-> b[1], betan |-> IF b[1] THEN sh[2] + b[2] ELSE 0,
    dYn |-> 0, meann |-> 0, rstdn |-> 0,
    wantDX |-> FALSE, wantDgamma |-> FALSE, wantDbeta |-> FALSE,
    seed |-> sd, mseed |-> 0, eps |-> e] :
   sh \in Shapes, dx \in {0, 1}, g \in Optional,
   b \in Optional, sd \in 0 .. MaxSeed, e \in EpsValues}

BackwardCall(sh, d, g, want, sd, ms) ==
  [fn |-> "backward", M |-> sh[1], N |-> sh[2],
   Xn |-> sh[1] * sh[2] + d[1],
   gammaDef |-> g[1], gamman |-> IF g[1] THEN sh[2] + g[2] ELSE 0,
   betaDef |-> FALSE, betan |-> 0,
   dYn |-> sh[1] * sh[2] + d[2], meann |-> sh[1] + d[3], rstdn |-> sh[1] + d[4],
   wantDX |-> want[1], wantDgamma |-> want[2], wantDbeta |-> want[3],
   seed |-> sd, mseed |-> ms, eps |-> RZero]

Wants == BOOLEAN \X BOOLEAN \X BOOLEAN
\* Exactly one of the counts of X, dY, mean, rstd is off.
Mismatches == {<<1, 0, 0, 0>>, <<0, 1, 0, 0>>, <<0, 0, 1, 0>>, <<0, 0, 0, 1>>}

\* Calls at the row count where the tiled reducer takes over: without dX,
\* every request and both contents of mean and rstd; with dX, all three
\* outputs and N = 1.
LargeCalls ==
  {BackwardCall(sh, <<0, 0, 0, 0>>, <<FALSE, 0>>, <<FALSE, want[1], want[2]>>,
                1, ms) :
     sh \in LargeShapes, want \in BOOLEAN \X BOOLEAN, ms \in 0 .. 1}
  \cup {BackwardCall(<<kColwiseReduceThreshold, 1>>, <<0, 0, 0, 0>>,
                     <<FALSE, 0>>, <<TRUE, TRUE, TRUE>>, 1, 0)}

\* Calls with the counts of X, dY, mean and rstd right, over all contents;
\* calls with one of them off; the calls at the threshold.
BackwardCalls ==
  {BackwardCall(sh, <<0, 0, 0, 0>>, g, want, sd, ms) :
     sh \in Shapes, g \in Optional, want \in Wants,
     sd \in 0 .. MaxSeed, ms \in 0 .. 1}
  \cup {BackwardCall(sh, d, g, want, 0, 0) :
          sh \in Shapes, d \in Mismatches, g \in Optional, want \in Wants}
  \cup LargeCalls

Calls == ForwardCalls \cup BackwardCalls

\* One row, and the row counts at and just above the multiples of the row
\* stripe.
KernelRows ==
  {1} \cup {kThreadY * k + d : k \in 1 .. MaxStripes, d \in {0, 1}}

\* The tiled reducer alone, at these row counts, with both outputs and with
\* dbeta alone.
KernelCalls ==
  {BackwardCall(<<m, 1 + kThreadY * t>>, <<0, 0, 0, 0>>, <<FALSE, 0>>,
                <<FALSE, want[1], want[2]>>, sd, sd % 2) :
     m \in KernelRows, t \in 0 .. MaxHalfTiles,
     want \in {<<TRUE, TRUE>>, <<FALSE, TRUE>>},
     sd \in {1, MaxSeed}}

Alloc(n) == [idx \in 0 .. (n - 1) |-> Junk]

TiledBlocks == CeilDiv(call.N, kColwiseReduceTileSize)

InitOf(calls) ==
  /\ call \in calls
  /\ status = "idle"
  /\ stream = <<>>
  /\ pending = [k \in Kernels |-> {}]
  /\ Y = Alloc(IF call.fn = "forward" THEN call.M * call.N ELSE 0)
  /\ mean = Alloc(IF call.fn = "forward" THEN call.M ELSE 0)
  /\ rstd = Alloc(IF call.fn = "forward" THEN call.M ELSE 0)
  /\ dX = Alloc(IF call.wantDX THEN call.M * call.N ELSE 0)
  /\ dgamma = Alloc(IF call.wantDgamma THEN call.N ELSE 0)
  /\ dbeta = Alloc(IF call.wantDbeta THEN call.N ELSE 0)
  /\ ds = <<>>
  /\ db = <<>>
  /\ scale = <<>>
  /\ bias = <<>>
  /\ writers = [name \in Buffers |-> {}]
  /\ reads = [k \in Kernels |-> {}]
  /\ wpc = <<>>
  /\ g_shared = <<>>
  /\ b_shared = <<>>
  /\ stores = <<>>
  /\ access = NoAccess

Init == InitOf(Calls)

InitKernels == InitOf(KernelCalls)

\* The grid of each kernel: blocks, and for the tiled reducer the warps of
\* its blocks.
GridOf(k) ==
  CASE k = "RowwiseMoments" -> Grid(call.M)
    [] k = "LayerNormForward" -> Grid(call.M)
    [] k = "ComputeInternalGradients" -> Grid(call.M)
    [] k = "ComputeGradientFusedParams" -> Grid(CeilDiv(call.M, kCUDANumThreads))
    [] k = "LayerNormBackward" -> Grid(call.M)
    [] k = "GammaBetaBackwardSimple" -> Grid(CeilDiv(call.N, kCUDANumThreads))
    [] k = "GammaBetaBackward" -> Grid(TiledBlocks * kThreadY)

LaunchAll(ks) ==
  /\ stream' = ks
  /\ pending' = [k \in Kernels |->
                   IF \E p \in DOMAIN ks : ks[p] = k THEN GridOf(k) ELSE {}]
  /\ wpc' = [u \in pending'["GammaBetaBackward"] |-> 0]
  /\ g_shared' = [b \in {u \div kThreadY : u \in pending'["GammaBetaBackward"]} |->
                    FreshTile]
  /\ b_shared' = g_shared'
  /\ stores' = [b \in DOMAIN g_shared' |->
                  [r \in ScratchRows |-> [c \in 0 .. (kThreadX - 1) |-> 0]]]

(***************************************************************************)
(* LayerNormKernelImplInternal                                             *)
(***************************************************************************)
\* The entry points without the early return.
ZeroRowsIgnored == FALSE

\* if (M == 0) return;
ZeroRows == call.M = 0

ForwardChecks ==
  /\ call.Xn = call.M * call.N
  /\ (~call.gammaDef \/ call.gamman = call.N)
  /\ (~call.betaDef \/ call.betan = call.N)

LayerNormKernelImplInternal ==
  /\ status = "idle"
  /\ call.fn = "forward"
  /\ IF ~ForwardChecks
     THEN /\ status' = "error"
          /\ UNCHANGED <<stream, pending, wpc, g_shared, b_shared, stores>>
     ELSE IF ZeroRows
     THEN /\ status' = "returned"
          /\ UNCHANGED <<stream, pending, wpc, g_shared, b_shared, stores>>
     ELSE /\ status' = "returned"
          /\ LaunchAll(<<"RowwiseMoments", "LayerNormForward">>)
  /\ UNCHANGED <<call, Y, mean, rstd, dX, dgamma, dbeta, ds, db, scale, bias,
                 writers, reads, access>>

RowwiseMomentsCUDAKernel ==
  \E i \in Schedulable("RowwiseMoments") :
    /\ LET r == RowwiseMomentsBlock(i, kCUDABlockReduceNumThreads)
       IN  /\ mean' = Store(mean, {<<i, r[1], 0>>})
           /\ rstd' = Store(rstd, {<<i, r[2], 0>>})
    /\ writers' = [writers EXCEPT
                     !["mean"] = @ \cup {<<i, "RowwiseMoments", i, 0>>},
                     !["rstd"] = @ \cup {<<i, "RowwiseMoments", i, 0>>}]
    /\ reads' = [reads EXCEPT !["RowwiseMoments"] = @ \cup {"X"}]
    /\ pending' = [pending EXCEPT !["RowwiseMoments"] = @ \ {i}]
    /\ UNCHANGED <<call, status, stream, Y, dX, dgamma, dbeta, ds, db, scale,
                   bias, wpc, g_shared, b_shared, stores, access>>

LayerNormForwardCUDAKernel ==
  \E i \in Schedulable("LayerNormForward") :
    /\ LET w == LayerNormForwardBlock(i, kCUDANumThreads)
       IN  /\ Y' = Store(Y, w)
           /\ writers' = [writers EXCEPT
                            !["Y"] = @ \cup StoreLog("LayerNormForward", i, w)]
    /\ reads' = [reads EXCEPT !["LayerNormForward"] =
                   @ \cup {"X", "mean", "rstd"}
                     \cup (IF call.gammaDef THEN {"gamma"} ELSE {})
                     \cup (IF call.betaDef THEN {"beta"} ELSE {})]
    /\ pending' = [pending EXCEPT !["LayerNormForward"] = @ \ {i}]
    /\ UNCHANGED <<call, status, stream, mean, rstd, dX, dgamma, dbeta, ds, db,
                   scale, bias, wpc, g_shared, b_shared, stores, access>>

(***************************************************************************)
(* LayerNormBackwardKernelImplInternal                                     *)
(***************************************************************************)
\* The backward checks without the one on rstd.
BackwardChecksWithoutRstd ==
  /\ call.dYn = call.M * call.N
  /\ call.Xn = call.M * call.N
  /\ call.meann = call.M
  /\ (~call.gammaDef \/ call.gamman = call.N)

BackwardChecks ==
  /\ call.dYn = call.M * call.N
  /\ call.Xn = call.M * call.N
  /\ call.meann = call.M
  /\ call.rstdn = call.M
  /\ (~call.gammaDef \/ call.gamman = call.N)

\* The kernels of the dX chain, launched when dX is defined.
InputGradientKernels ==
  IF call.wantDX
  THEN <<"ComputeInternalGradients", "ComputeGradientFusedParams",
         "LayerNormBackward">>
  ELSE <<>>

\* The reducer launched whether or not an output of it is defined.
ParameterGradientKernelsUnconditional ==
  IF call.M < kColwiseReduceThreshold
  THEN <<"GammaBetaBackwardSimple">>
  ELSE <<"GammaBetaBackward">>

\* The reducer, launched when dgamma or dbeta is defined.
ParameterGradientKernels ==
  IF call.wantDgamma \/ call.wantDbeta
  THEN IF call.M < kColwiseReduceThreshold
       THEN <<"GammaBetaBackwardSimple">>
       ELSE <<"GammaBetaBackward">>
  ELSE <<>>

LayerNormBackwardKernelImplInternal ==
  /\ status = "idle"
  /\ call.fn = "backward"
  /\ IF ~BackwardChecks
     THEN /\ status' = "error"
          /\ UNCHANGED <<stream, pending, ds, db, scale, bias, wpc, g_shared,
                         b_shared, stores>>
     ELSE IF ZeroRows
     THEN /\ status' = "returned"
          /\ UNCHANGED <<stream, pending, ds, db, scale, bias, wpc, g_shared,
                         b_shared, stores>>
     ELSE /\ status' = "returned"
          /\ LaunchAll(InputGradientKernels \o ParameterGradientKernels)
          /\ ds' = Alloc(IF call.wantDX THEN call.M ELSE 0)
          /\ db' = ds'
          /\ scale' = ds'
          /\ bias' = ds'
  /\ UNCHANGED <<call, Y, mean, rstd, dX, dgamma, dbeta, writers, reads, access>>

ComputeInternalGradientsCUDAKernel ==
  \E i \in Schedulable("ComputeInternalGradients") :
    /\ LET r == ComputeInternalGradientsBlock(i, kCUDABlockReduceNumThreads)
       IN  /\ ds' = Store(ds, {<<i, r[1], 0>>})
           /\ db' = Store(db, {<<i, r[2], 0>>})
    /\ writers' = [writers EXCEPT
                     !["ds"] = @ \cup {<<i, "ComputeInternalGradients", i, 0>>},
                     !["db"] = @ \cup {<<i, "ComputeInternalGradients", i, 0>>}]
    /\ reads' = [reads EXCEPT !["ComputeInternalGradients"] =
                   @ \cup {"dY", "X"}
                     \cup (IF call.gammaDef THEN {"gamma"} ELSE {})]
    /\ pending' = [pending EXCEPT !["ComputeInternalGradients"] = @ \ {i}]
    /\ UNCHANGED <<call, status, stream, Y, mean, rstd, dX, dgamma, dbeta,
                   scale, bias, wpc, g_shared, b_shared, stores, access>>

ComputeGradientFusedParamsCUDAKernel ==
  \E b \in Schedulable("ComputeGradientFusedParams") :
    /\ LET t == FusedParamsThreads(b, kCUDANumThreads)
           c == [tx \in t |-> FusedParams(b * kCUDANumThreads + tx)]
           w1 == {<<b * kCUDANumThreads + tx, c[tx][1], tx>> : tx \in t}
           w2 == {<<b * kCUDANumThreads + tx, c[tx][2], tx>> : tx \in t}
       IN  /\ scale' = Store(scale, w1)
           /\ bias' = Store(bias, w2)
           /\ writers' = [writers EXCEPT
                !["scale"] = @ \cup StoreLog("ComputeGradientFusedParams", b, w1),
                !["bias"] = @ \cup StoreLog("ComputeGradientFusedParams", b, w2)]
    /\ reads' = [reads EXCEPT !["ComputeGradientFusedParams"] =
                   @ \cup {"mean", "rstd", "ds", "db"}]
    /\ pending' = [pending EXCEPT !["ComputeGradientFusedParams"] = @ \ {b}]
    /\ UNCHANGED <<call, status, stream, Y, mean, rstd, dX, dgamma, dbeta, ds,
                   db, wpc, g_shared, b_shared, stores, access>>

LayerNormBackwardCUDAKenrel ==
  \E i \in Schedulable("LayerNormBackward") :
    /\ LET w == LayerNormBackwardBlock(i, kCUDANumThreads)
       IN  /\ dX' = Store(dX, w)
           /\ writers' = [writers EXCEPT
                            !["dX"] = @ \cup StoreLog("LayerNormBackward", i, w)]
    /\ reads' = [reads EXCEPT !["LayerNormBackward"] =
                   @ \cup {"dY", "X", "rstd", "scale", "bias"}
                     \cup (IF call.gammaDef THEN {"gamma"} ELSE {})]
    /\ pending' = [pending EXCEPT !["LayerNormBackward"] = @ \ {i}]
    /\ UNCHANGED <<call, status, stream, Y, mean, rstd, dgamma, dbeta, ds, db,
                   scale, bias, wpc, g_shared, b_shared, stores, access>>

\* Stores to an output that was requested; a null output gets none.
StoreIf(wanted, buf, w) == IF wanted THEN Store(buf, w) ELSE buf
LogIf(wanted, kernel, block, w) ==
  IF wanted THEN StoreLog(kernel, block, w) ELSE {}

GammaBetaBackwardSimpleCUDAKernel ==
  \E b \in Schedulable("GammaBetaBackwardSimple") :
    /\ LET w1 == GammaBetaBackwardSimpleBlock(b, kCUDANumThreads, 1)
           w2 == GammaBetaBackwardSimpleBlock(b, kCUDANumThreads, 2)
       IN  /\ dgamma' = StoreIf(call.wantDgamma, dgamma, w1)
           /\ dbeta' = StoreIf(call.wantDbeta, dbeta, w2)
           /\ writers' = [writers EXCEPT
                !["dgamma"] = @ \cup LogIf(call.wantDgamma,
                                           "GammaBetaBackwardSimple", b, w1),
                !["dbeta"] = @ \cup LogIf(call.wantDbeta,
                                          "GammaBetaBackwardSimple", b, w2)]
    /\ reads' = [reads EXCEPT !["GammaBetaBackwardSimple"] = @ \cup ReducerLoads]
    /\ pending' = [pending EXCEPT !["GammaBetaBackwardSimple"] = @ \ {b}]
    /\ UNCHANGED <<call, status, stream, Y, mean, rstd, dX, ds, db, scale,
                   bias, wpc, g_shared, b_shared, stores, access>>

(***************************************************************************)
(* The steps of one warp of GammaBetaBackwardCUDAKernel.                   *)
(***************************************************************************)
\* Lines 199-228: accumulate, store the partial sums, arrive at the barrier.
TiledAccumulate ==
  \E u \in TiledSchedulable :
    LET b == u \div kThreadY
        ty == u % kThreadY
        t == [tx \in 0 .. (kThreadX - 1) |-> TiledThread(b, tx, ty)]
        cells == WarpStoreCells(ty)
    IN  /\ wpc[u] = 0
        /\ wpc' = [wpc EXCEPT ![u] = 1]
        /\ g_shared' = [g_shared EXCEPT
                          ![b][ty] = [tx \in DOMAIN t |-> t[tx].dg_sum1],
                          ![b][ty + kThreadY] = [tx \in DOMAIN t |-> t[tx].dg_sum2]]
        /\ b_shared' = [b_shared EXCEPT
                          ![b][ty] = [tx \in DOMAIN t |-> t[tx].db_sum1],
                          ![b][ty + kThreadY] = [tx \in DOMAIN t |-> t[tx].db_sum2]]
        /\ stores' = [stores EXCEPT
                        ![b][ty] = [tx \in DOMAIN @ |-> @[tx] + 1],
                        ![b][ty + kThreadY] = [tx \in DOMAIN @ |-> @[tx] + 1]]
        /\ access' = [block |-> b,
                      loads |-> UNION {UNION {RowLoads(i, b * kThreadX + tx) :
                                               i \in t[tx].rows} : tx \in DOMAIN t},
                      stores |-> {},
                      scratchStores |-> cells,
                      scratchLoads |-> {}]
        /\ reads' = [reads EXCEPT !["GammaBetaBackward"] =
                       @ \cup {l[1] : l \in access'.loads}]
        /\ UNCHANGED <<call, status, stream, pending, Y, mean, rstd, dX, dgamma,
                       dbeta, ds, db, scale, bias, writers>>

\* One transposed reduction of warp u: column col of the tile, output
\* column j.
TiledReduce(u, col, j) ==
  LET b == u \div kThreadY
      cells == TransposedCells(col)
      sum1 == WarpReduceSum([tx \in Lanes |-> g_shared[b][tx][col]])
      sum2 == WarpReduceSum([tx \in Lanes |-> b_shared[b][tx][col]])
      w1 == TiledOutput(call.wantDgamma, j, sum1)
      w2 == TiledOutput(call.wantDbeta, j, sum2)
  IN  /\ dgamma' = StoreIf(call.wantDgamma, dgamma, w1)
      /\ dbeta' = StoreIf(call.wantDbeta, dbeta, w2)
      /\ writers' = [writers EXCEPT
           !["dgamma"] = @ \cup LogIf(call.wantDgamma, "GammaBetaBackward", b,
                      {<<s[1], s[2], (u % kThreadY) * kThreadX>> : s \in w1}),
           !["dbeta"] = @ \cup LogIf(call.wantDbeta, "GammaBetaBackward", b,
                      {<<s[1], s[2], (u % kThreadY) * kThreadX>> : s \in w2})]
      /\ access' = [block |-> b,
                    loads |-> {},
                    stores |-> {<<"dg", s[1]>> : s \in w1}
                               \cup {<<"db", s[1]>> : s \in w2},
                    scratchStores |-> {},
                    scratchLoads |-> cells]

\* Lines 229-243.
TiledReduceFirst ==
  \E u \in TiledSchedulable :
    /\ wpc[u] = 1
    /\ SyncThreads(u \div kThreadY)
    /\ TiledReduce(u, u % kThreadY,
                   (u \div kThreadY) * kThreadX + (u % kThreadY))
    /\ wpc' = [wpc EXCEPT ![u] = 2]
    /\ UNCHANGED <<call, status, stream, pending, Y, mean, rstd, dX, ds, db,
                   scale, bias, reads, g_shared, b_shared, stores>>

\* Lines 244-258.
TiledReduceSecond ==
  \E u \in TiledSchedulable :
    /\ wpc[u] = 2
    /\ TiledReduce(u, (u % kThreadY) + kThreadY,
                   (u \div kThreadY) * kThreadX + (u % kThreadY) + kThreadY)
    /\ wpc' = [wpc EXCEPT ![u] = 3]
    /\ pending' = [pending EXCEPT !["GammaBetaBackward"] = @ \ {u}]
    /\ UNCHANGED <<call, status, stream, Y, mean, rstd, dX, ds, db, scale,
                   bias, reads, g_shared, b_shared, stores>>

\* The launch of lines 399-412 alone, at any row count.
LaunchGammaBetaBackward ==
  /\ status = "idle"
  /\ call.fn = "backward"
  /\ status' = "returned"
  /\ LaunchAll(<<"GammaBetaBackward">>)
  /\ UNCHANGED <<call, Y, mean, rstd, dX, dgamma, dbeta, ds, db, scale, bias,
                 writers, reads, access>>

Next ==
  \/ LayerNormKernelImplInternal
  \/ RowwiseMomentsCUDAKernel
  \/ LayerNormForwardCUDAKernel
  \/ LayerNormBackwardKernelImplInternal
  \/ ComputeInternalGradientsCUDAKernel
  \/ ComputeGradientFusedParamsCUDAKernel
  \/ LayerNormBackwardCUDAKenrel
  \/ GammaBetaBackwardSimpleCUDAKernel
  \/ TiledAccumulate
  \/ TiledReduceFirst
  \/ TiledReduceSecond

Spec == Init /\ [][Next]_vars

NextKernels ==
  \/ LaunchGammaBetaBackward
  \/ TiledAccumulate
  \/ TiledReduceFirst
  \/ TiledReduceSecond

SpecKernels == InitKernels /\ [][NextKernels]_vars

(***************************************************************************)
(* Vocabulary of the properties.                                           *)
(***************************************************************************)
Rows == 0 .. (call.M - 1)
Cols == 0 .. (call.N - 1)

NoPassLaunched == stream = <<>> /\ \A k \in Kernels : pending[k] = {}

Untouched(buf) == \A idx \in DOMAIN buf : buf[idx] = Junk

OutputsUntouched ==
  /\ \A name \in Buffers : writers[name] = {}
  /\ Untouched(Y) /\ Untouched(mean) /\ Untouched(rstd)
  /\ Untouched(dX) /\ Untouched(dgamma) /\ Untouched(dbeta)

\* A count the caller passed differs from the one M and N require.
PreconditionViolated ==
  \/ call.Xn # call.M * call.N
  \/ call.gammaDef /\ call.gamman # call.N
  \/ call.fn = "forward" /\ call.betaDef /\ call.betan # call.N
  \/ call.fn = "backward" /\ call.dYn # call.M * call.N
  \/ call.fn = "backward" /\ call.meann # call.M
  \/ call.fn = "backward" /\ call.rstdn # call.M

\* The entry point launched kernels and all of them have completed.
AllDone ==
  status = "returned" /\ stream # <<>> /\ \A k \in Kernels : pending[k] = {}

InputGradientChain == {"ComputeInternalGradients", "ComputeGradientFusedParams",
                       "LayerNormBackward"}
Reducers == {"GammaBetaBackwardSimple", "GammaBetaBackward"}

ReducerDone ==
  /\ status = "returned"
  /\ \E k \in Reducers : Launched(k)
  /\ \A k \in Reducers : pending[k] = {}

\* The indices of the buffer that were stored to.
Stored(name) == {w[1] : w \in writers[name]}

\* The buffers kernel k stored to.
WrittenBy(k) == {name \in Buffers : \E w \in writers[name] : w[2] = k}

\* A scratch tile holds only what it was allocated with, or zeros.
TileIsZero(tile) ==
  \A r \in ScratchRows : \A c \in 0 .. (kThreadX - 1) :
    tile[r][c] \in {ScratchJunk, 0}

(***************************************************************************)
(* C1.  A call of either entry point with a violated precondition (the     *)
(* count of X, of a present gamma or beta, or in backward of dY, mean or   *)
(* rstd) ends in the error, and never launches a kernel or stores to an    *)
(* output buffer.                                                          *)
(***************************************************************************)
C1_PreconditionFailure ==
  PreconditionViolated =>
    /\ status \in {"idle", "error"}
    /\ NoPassLaunched
    /\ OutputsUntouched

C1_Witness ==
  /\ call.fn = "backward"
  /\ call.M >= 1
  /\ call.wantDX
  /\ call.rstdn # call.M
  /\ status = "error"

(***************************************************************************)
(* C2.  As stated: whenever M = 0 the entry point returns without a launch,*)
(* a store or an error.                                                    *)
(***************************************************************************)
C2_ZeroRowsAsStated ==
  (call.M = 0 /\ status # "idle") =>
    /\ status = "returned"
    /\ NoPassLaunched
    /\ OutputsUntouched

(***************************************************************************)
(* C2, amended.  When M = 0 and the preconditions hold, the entry point    *)
(* returns without a launch, a store or an error.                          *)
(***************************************************************************)
C2_ZeroRows ==
  (call.M = 0 /\ ~PreconditionViolated /\ status # "idle") =>
    /\ status = "returned"
    /\ NoPassLaunched
    /\ OutputsUntouched

C2_Witness ==
  /\ call.fn = "backward"
  /\ call.M = 0
  /\ call.wantDX /\ call.wantDbeta
  /\ ~PreconditionViolated
  /\ status = "returned"

(***************************************************************************)
(* C3.  In backward with M >= 1, after the checks: the three kernels of    *)
(* the dX chain are launched iff dX is defined; a reducer is launched iff  *)
(* dgamma or dbeta is defined; a reducer with a null dgamma loads only dY, *)
(* adds zero terms and leaves the dgamma scratch tile zero, and likewise   *)
(* for a null dbeta; a buffer that is not defined is never stored to.      *)
(***************************************************************************)
C3_OptionalOutputs ==
  (call.fn = "backward" /\ call.M >= 1 /\ status = "returned") =>
    /\ \A k \in InputGradientChain : Launched(k) <=> call.wantDX
    /\ (\E k \in Reducers : Launched(k)) <=> (call.wantDgamma \/ call.wantDbeta)
    /\ ~call.wantDX =>
         \A name \in {"dX", "ds", "db", "scale", "bias"} : writers[name] = {}
    /\ ~call.wantDgamma =>
         /\ writers["dgamma"] = {}
         /\ \A k \in Reducers : reads[k] \subseteq {"dY"}
         /\ \A b \in DOMAIN g_shared : TileIsZero(g_shared[b])
         /\ Launched("GammaBetaBackwardSimple") =>
              \A j \in Cols : SimpleLoop(0, j, <<0, 0>>)[1] = 0
    /\ ~call.wantDbeta =>
         /\ writers["dbeta"] = {}
         /\ \A b \in DOMAIN b_shared : TileIsZero(b_shared[b])
         /\ Launched("GammaBetaBackwardSimple") =>
              \A j \in Cols : SimpleLoop(0, j, <<0, 0>>)[2] = 0

C3_Witness ==
  /\ call.fn = "backward"
  /\ call.M = kColwiseReduceThreshold
  /\ ~call.wantDX /\ call.wantDgamma /\ ~call.wantDbeta
  /\ AllDone
  /\ dgamma[0] # Junk
  /\ reads["GammaBetaBackward"] = {"dY", "X", "mean", "rstd"}

EveryRowOnce ==
  LET r == [ty \in 0 .. (kThreadY - 1) |-> TiledLoop(ty, 0, TiledZero).rows]
  IN  /\ UNION {r[ty] : ty \in DOMAIN r} = Rows
      /\ \A ty1, ty2 \in DOMAIN r : ty1 # ty2 => r[ty1] \cap r[ty2] = {}

TiledDone ==
  /\ status = "returned"
  /\ Launched("GammaBetaBackward")
  /\ pending["GammaBetaBackward"] = {}

(***************************************************************************)
(* C4.  The tiled kernel, launched with 32 x 16 threads and ceil(N/32)     *)
(* blocks, leaves in dgamma[j] and dbeta[j], for every j < N, the value    *)
(* the simple kernel stores there for the same inputs; the rows its 16     *)
(* warps add for a column are all M rows, no row in two warps.             *)
(***************************************************************************)
C4_SimpleEqualsTiled ==
  /\ status = "idle" => EveryRowOnce
  /\ TiledDone =>
       \A b \in Grid(CeilDiv(call.N, kCUDANumThreads)) :
         /\ call.wantDgamma =>
              /\ Stored("dgamma") = Cols
              /\ \A s \in GammaBetaBackwardSimpleBlock(b, kCUDANumThreads, 1) :
                   dgamma[s[1]] = s[2]
         /\ call.wantDbeta =>
              /\ Stored("dbeta") = Cols
              /\ \A s \in GammaBetaBackwardSimpleBlock(b, kCUDANumThreads, 2) :
                   dbeta[s[1]] = s[2]

C4_Witness ==
  /\ TiledDone
  /\ call.M = kThreadY + 1
  /\ call.N = kColwiseReduceTileSize + 1
  /\ call.wantDgamma /\ call.wantDbeta
  /\ dgamma[call.N - 1] # RZero
  /\ dbeta[call.N - 1] # RZero

(***************************************************************************)
(* C5.  A kernel loads from a buffer only after the kernel producing it    *)
(* has stored all M entries: LayerNormForward after mean and rstd,         *)
(* ComputeGradientFusedParams after ds and db, LayerNormBackward after     *)
(* scale and bias.                                                         *)
(***************************************************************************)
C5_PassOrder ==
  /\ reads["LayerNormForward"] # {} =>
       Stored("mean") = Rows /\ Stored("rstd") = Rows
  /\ reads["ComputeGradientFusedParams"] # {} =>
       Stored("ds") = Rows /\ Stored("db") = Rows
  /\ reads["LayerNormBackward"] # {} =>
       Stored("scale") = Rows /\ Stored("bias") = Rows

C5_Witness ==
  /\ call.fn = "backward"
  /\ call.M >= 2
  /\ reads["LayerNormBackward"] # {}
  /\ pending["LayerNormBackward"] # {}

BufferOf(name) ==
  CASE name = "Y" -> Y          [] name = "mean" -> mean
    [] name = "rstd" -> rstd    [] name = "dX" -> dX
    [] name = "dgamma" -> dgamma [] name = "dbeta" -> dbeta
    [] name = "ds" -> ds        [] name = "db" -> db
    [] name = "scale" -> scale  [] name = "bias" -> bias

\* Every cell of the buffer was stored to, by one thread of one block.
OneWriterPerCell(name) ==
  /\ Stored(name) = DOMAIN BufferOf(name)
  /\ Cardinality(Stored(name)) = Cardinality(writers[name])

\* The buffers hold what the blocks compute from the inputs (and from the
\* completed buffers of the kernels before them), whatever order they ran in.
FinalForward ==
  call.fn = "forward" =>
    \A i \in Rows :
      /\ <<mean[i], rstd[i]>> = RowwiseMomentsBlock(i, kCUDABlockReduceNumThreads)
      /\ \A s \in LayerNormForwardBlock(i, kCUDANumThreads) : Y[s[1]] = s[2]

FinalInputGradient ==
  call.wantDX =>
    \A i \in Rows :
      /\ <<ds[i], db[i]>> =
           ComputeInternalGradientsBlock(i, kCUDABlockReduceNumThreads)
      /\ <<scale[i], bias[i]>> = FusedParams(i)
      /\ \A s \in LayerNormBackwardBlock(i, kCUDANumThreads) : dX[s[1]] = s[2]

\* The sums over the rows lo .. hi - 1 of column j: of dY, and of
\* dY * (X - mean) * rstd.
RECURSIVE SumOfdY(_, _, _)
SumOfdY(lo, hi, j) ==
  IF hi <= lo THEN 0
  ELSE IF hi = lo + 1 THEN dYAt(lo, j)
  ELSE LET mid == (lo + hi) \div 2
       IN  SumOfdY(lo, mid, j) + SumOfdY(mid, hi, j)

RECURSIVE SumOfdYXhat(_, _, _)
SumOfdYXhat(lo, hi, j) ==
  IF hi <= lo THEN 0
  ELSE IF hi = lo + 1 THEN dYAt(lo, j) * (XAt(lo, j) - meanAt(lo)) * rstdAt(lo)
  ELSE LET mid == (lo + hi) \div 2
       IN  SumOfdYXhat(lo, mid, j) + SumOfdYXhat(mid, hi, j)

FinalParameterGradient ==
  \A j \in Cols :
    /\ call.wantDgamma => dgamma[j] = RInt(SumOfdYXhat(0, call.M, j))
    /\ call.wantDbeta => dbeta[j] = RInt(SumOfdY(0, call.M, j))

(***************************************************************************)
(* C6.  When the kernels of a call have completed, every cell of mean,     *)
(* rstd, Y, ds, db, scale, bias, dX, dgamma and dbeta was stored to by     *)
(* exactly one thread of exactly one block; no kernel loaded from a buffer *)
(* it stores to; and the buffers hold the same contents whatever order     *)
(* the blocks ran in.                                                      *)
(***************************************************************************)
C6_BlockIndependence ==
  AllDone =>
    /\ \A name \in Buffers : OneWriterPerCell(name)
    /\ \A k \in Kernels : reads[k] \cap WrittenBy(k) = {}
    /\ FinalForward
    /\ FinalInputGradient
    /\ FinalParameterGradient

C6_Witness ==
  /\ AllDone
  /\ call.fn = "backward"
  /\ call.M >= 2 /\ call.N >= 2
  /\ call.wantDX /\ call.wantDgamma /\ call.wantDbeta
  /\ Cardinality(writers["dX"]) = call.M * call.N

(***************************************************************************)
(* C7.  In backward, when the reducer (simple or tiled) has completed,     *)
(* dbeta[j] is the sum of dY[i][j] over all M rows for every j < N,        *)
(* whichever other outputs are requested and whatever mean and rstd hold.  *)
(***************************************************************************)
C7_dShiftValue ==
  (call.fn = "backward" /\ ReducerDone /\ call.wantDbeta) =>
    \A j \in Cols : dbeta[j] = RInt(SumOfdY(0, call.M, j))

C7_Witness ==
  /\ call.fn = "backward"
  /\ call.M = kColwiseReduceThreshold
  /\ ~call.wantDX /\ ~call.wantDgamma /\ call.wantDbeta
  /\ call.mseed = 1
  /\ ReducerDone
  /\ dbeta[0] = RInt(SumOfdY(0, call.M, 0))
  /\ dbeta[0] # RZero

\* Row i of X holds one value.
ConstantRow(i) == \A j \in Cols : XAt(i, j) = XAt(i, 0)

\* mean[i] is that value, the variance is 0 (rstd is rsqrt(eps)), and Y is
\* beta, or 0 without beta.
ConstantRowResult(i) ==
  /\ mean[i] = RInt(XAt(i, 0))
  /\ rstd[i] = call.eps
  /\ \A j \in Cols :
       Y[i * call.N + j] =
         [kind |-> "finite", coef |-> RZero, rad |-> RInt(1),
          off |-> IF call.betaDef THEN RInt(betaAt(j)) ELSE RZero]

(***************************************************************************)
(* C8, as stated.  In forward, for a row of N equal values v the mean is   *)
(* v, the variance is 0 and Y is beta (0 without beta) in every column,    *)
(* whatever gamma is.                                                      *)
(***************************************************************************)
C8_ConstantRowAsStated ==
  (call.fn = "forward" /\ AllDone) =>
    \A i \in Rows : ConstantRow(i) => ConstantRowResult(i)

(***************************************************************************)
(* C8, amended.  In forward with eps > 0, for a row of N equal values v    *)
(* the mean is v, the variance is 0 and Y is beta (0 without beta) in      *)
(* every column, whatever gamma is.                                        *)
(***************************************************************************)
C8_ConstantRow ==
  (call.fn = "forward" /\ AllDone /\ RIsPos(call.eps)) =>
    \A i \in Rows : ConstantRow(i) => ConstantRowResult(i)

C8_Witness ==
  /\ call.fn = "forward" /\ AllDone
  /\ RIsPos(call.eps)
  /\ call.M >= 1 /\ call.N >= 2
  /\ call.gammaDef /\ call.betaDef
  /\ XAt(0, 0) # 0
  /\ ConstantRow(0) /\ ConstantRowResult(0)

\* Every warp of block b has stored its partial sums.
AllArrived(b) ==
  \A ty \in 0 .. (kThreadY - 1) : wpc[b * kThreadY + ty] >= 1

\* Some warp of an unfinished tiled reducer can take its next step.
SomeWarpCanStep ==
  \E u \in TiledSchedulable :
    wpc[u] # 1 \/ AllArrived(u \div kThreadY)

(***************************************************************************)
(* C9.  In the tiled kernel every warp stores its partial sums, zeros in   *)
(* the columns >= N, and arrives at the barrier, so no warp waits there    *)
(* for ever; a scratch cell a warp loads in a transposed reduction was     *)
(* stored to exactly once, by a warp of the same block, after which all    *)
(* warps of the block arrived; no scratch cell is stored to twice.         *)
(***************************************************************************)
C9_BarrierAndScratch ==
  /\ \A c \in access.scratchStores :
       /\ stores[access.block][c[1]][c[2]] = 1
       /\ access.block * kThreadX + c[2] >= call.N =>
            /\ g_shared[access.block][c[1]][c[2]] = 0
            /\ b_shared[access.block][c[1]][c[2]] = 0
  /\ \A c \in access.scratchLoads :
       /\ stores[access.block][c[1]][c[2]] = 1
       /\ AllArrived(access.block)
  /\ (StreamReady("GammaBetaBackward") /\ pending["GammaBetaBackward"] # {}) =>
       SomeWarpCanStep

C9_Witness ==
  /\ call.N = kThreadY + 1
  /\ access.scratchLoads # {}
  /\ \E c \in access.scratchLoads :
       /\ access.block * kThreadX + c[2] >= call.N
       /\ g_shared[access.block][c[1]][c[2]] = 0
       /\ stores[access.block][c[1]][c[2]] = 1

(***************************************************************************)
(* C10.  Every step of the tiled kernel, launched with 32 x 16 threads and *)
(* ceil(N/32) blocks, loads dY and X at indices below M * N and mean and   *)
(* rstd at indices below M, stores to dgamma and dbeta at columns below N, *)
(* and indexes the scratch tiles with a row below 32 and a column below    *)
(* 33.                                                                     *)
(***************************************************************************)
C10_TiledBounds ==
  /\ \A l \in access.loads :
       /\ l[2] >= 0
       /\ l[1] \in {"dY", "X"} => l[2] < call.M * call.N
       /\ l[1] \in {"mean", "rstd"} => l[2] < call.M
  /\ \A s \in access.stores : s[2] >= 0 /\ s[2] < call.N
  /\ \A c \in access.scratchStores \cup access.scratchLoads :
       /\ c[1] >= 0 /\ c[1] < kColwiseReduceTileSize
       /\ c[2] >= 0 /\ c[2] < kColwiseReduceTileSize + 1

C10_Witness ==
  /\ call.M = kThreadY + 1
  /\ call.N = kColwiseReduceTileSize + 1
  /\ call.wantDgamma /\ call.wantDbeta
  /\ <<"db", call.N - 1>> \in access.stores
  /\ \E u \in DOMAIN wpc : wpc[u] = 1

====
